---------------------------- MODULE Spec2Model ----------------------------
(***************************************************************************)
(* Conway's Game of Life (windagency/game-conway): the engine functions of *)
(* game.ts, the session object of main.ts and the input handlers of        *)
(* input.ts.                                                               *)
(*                                                                         *)
(* A Grid is a sequence of rows, each a sequence of cells (0 dead, 1       *)
(* alive).  The source indexes from 0, TLA+ sequences from 1: the          *)
(* operators below take the source's 0-based (row, col) and add 1 to index.  *)
(***************************************************************************)
EXTENDS Integers, Sequences, FiniteSets, TLC

VARIABLES
    \* GameState (types.ts) held by GameOfLife.gameStateRef.current
    grid, generation, status, simulationInterval, timerId, drawMode,
    \* input.ts closure variable of setupInputHandlers
    isMouseDown,
    \* the browser's list of active interval timers: handle -> interval (ms)
    timers,
    \* the next handle window.setInterval returns
    nextTimerId,
    \* history, for stating the claims: the last event handler that ran, its
    \* argument, and the status it found
    lastCmd, lastArg, prevStatus,
    \* history of the drag gesture in progress: the state its first touched
    \* cell had when it was touched, <<>> while no cell has been touched
    firstTouched,
    \* a call of an engine function on its own: argument, result, position
    fnIn, fnOut, fnPc, fnArg

sessionVars == <<grid, generation, status, simulationInterval, timerId,
                 drawMode, isMouseDown, timers, nextTimerId, lastCmd,
                 lastArg, prevStatus, firstTouched>>
fnVars == <<fnIn, fnOut, fnPc, fnArg>>
vars == <<grid, generation, status, simulationInterval, timerId, drawMode,
          isMouseDown, timers, nextTimerId, lastCmd, lastArg, prevStatus,
          firstTouched, fnIn, fnOut, fnPc, fnArg>>

---------------------------------------------------------------------------
(* Bounds of the model *)

\* the session's grid: CONFIG.initialGridRows x CONFIG.initialGridCols,
\* scaled down from 50 x 70
initialGridRows == 2
initialGridCols == 3
\* grids handed to the engine functions on their own: 1..MaxRows x 1..MaxCols
MaxRows == 3
MaxCols == 3
\* the glider is stamped at offsets -MaxStart..MaxStart
MaxStart == 2
\* generations a session is followed for
MaxGeneration == 2
\* interval timers a session creates
MaxTimerIds == 2
\* createRandomGrid: only the first MaxRandomCells cells (row-major) may be alive
MaxRandomCells == 1
\* grids handed to setCellState and loadPattern on their own: 0..MaxEditRows
\* rows, each of 0..MaxEditCols cells (the rows need not be equally long)
MaxEditRows == 2
MaxEditCols == 2

(* Program constants (config.ts) *)
canvasWidth == 700
canvasHeight == 500
defaultSimulationIntervalMs == 200
minSimulationIntervalMs == 50
maxSimulationIntervalMs == 1000

\* null: a nullable value is <<>> when null and <<v>> (or the tuple itself) otherwise
Null == <<>>

---------------------------------------------------------------------------
(* game.ts *)

\* g[row]?.[col] === v with 0-based indices: an index outside the arrays
\* reads undefined, which equals no cell state
cellIs(g, row, col, v) ==
    /\ row + 1 \in DOMAIN g
    /\ col + 1 \in DOMAIN g[row + 1]
    /\ g[row + 1][col + 1] = v

createEmptyGrid(nRows, nCols) == [r \in 1..nRows |-> [c \in 1..nCols |-> 0]]

\* createRandomGrid: Math.random() < probability decides each cell; alive is
\* the set of 0-based cells whose draw came out below the probability
createRandomGrid(nRows, nCols, alive) ==
    [r \in 1..nRows |-> [c \in 1..nCols |->
        IF <<r - 1, c - 1>> \in alive THEN 1 ELSE 0]]

\* the (i, j) pairs of the two nested loops, the cell itself skipped
NeighborOffsets ==
    {o \in (-1..1) \X (-1..1) : ~(o[1] = 0 /\ o[2] = 0)}

\* liveNeighbors without the toroidal wrap: a neighbour past an edge is not read
liveNeighborsNoWrap(currentGrid, nRows, nCols, row, col) ==
    Cardinality({o \in NeighborOffsets :
        cellIs(currentGrid, row + o[1], col + o[2], 1)})

\* the loop body of calculateNextGeneration: wrapped indices, then the count
liveNeighbors(currentGrid, nRows, nCols, row, col) ==
    Cardinality({o \in NeighborOffsets :
        LET neighborRow == row + o[1]
            neighborCol == col + o[2]
            wrappedRow == (neighborRow + nRows) % nRows
            wrappedCol == (neighborCol + nCols) % nCols
        IN  cellIs(currentGrid, wrappedRow, wrappedCol, 1)})

\* nextCellState with the survival test off by one (<= 2 in place of < 2)
nextCellStateOffByOne(currentCellState, n) ==
    IF currentCellState = 1
    THEN (IF n <= 2 \/ n > 3 THEN 0 ELSE 1)
    ELSE (IF n = 3 THEN 1 ELSE 0)

\* nextCellState without the underpopulation test
nextCellStateNoUnderpopulation(currentCellState, n) ==
    IF currentCellState = 1
    THEN (IF n > 3 THEN 0 ELSE 1)
    ELSE (IF n = 3 THEN 1 ELSE 0)

\* Conway's rules on one cell
nextCellState(currentCellState, n) ==
    IF currentCellState = 1
    THEN (IF n < 2 \/ n > 3 THEN 0 ELSE 1)
    ELSE (IF n = 3 THEN 1 ELSE 0)

\* calculateNextGeneration whose empty-grid test looks at the rows only; with
\* numCols 0 the wrapped column index is NaN and no neighbour is counted
calculateNextGenerationRowsOnly(currentGrid) ==
    LET nRows == Len(currentGrid)
        nCols == IF nRows > 0 THEN Len(currentGrid[1]) ELSE 0
    IN  IF nRows = 0
        THEN <<>>
        ELSE [r \in 1..nRows |-> [c \in 1..Len(currentGrid[r]) |->
                nextCellState(currentGrid[r][c],
                    IF nCols = 0
                    THEN 0
                    ELSE liveNeighbors(currentGrid, nRows, nCols, r - 1, c - 1))]]

calculateNextGeneration(currentGrid) ==
    LET nRows == Len(currentGrid)
        nCols == IF nRows > 0 THEN Len(currentGrid[1]) ELSE 0
    IN  IF nRows = 0 \/ nCols = 0
        THEN <<>>
        ELSE [r \in 1..nRows |-> [c \in 1..Len(currentGrid[r]) |->
                nextCellState(currentGrid[r][c],
                    liveNeighbors(currentGrid, nRows, nCols, r - 1, c - 1))]]

\* sanitizeRow that pads short rows and leaves long rows as they are
sanitizeRowPadsOnly(currentRowArray, expectedNumCols) ==
    IF Len(currentRowArray) < expectedNumCols
    THEN [i \in 1..expectedNumCols |->
            IF i <= Len(currentRowArray) THEN currentRowArray[i] ELSE 0]
    ELSE currentRowArray

\* the row repair shared by setCellState and loadPattern: pad with dead cells
\* or truncate to expectedNumCols
sanitizeRow(currentRowArray, expectedNumCols) ==
    IF Len(currentRowArray) < expectedNumCols
    THEN [i \in 1..expectedNumCols |->
            IF i <= Len(currentRowArray) THEN currentRowArray[i] ELSE 0]
    ELSE IF Len(currentRowArray) > expectedNumCols
    THEN SubSeq(currentRowArray, 1, expectedNumCols)
    ELSE currentRowArray

\* grid[0]?.length ?? CONFIG.initialGridCols
expectedNumColsOf(g) == IF Len(g) > 0 THEN Len(g[1]) ELSE initialGridCols

\* an optional CellState argument: <<>> when it is left out, <<v>> when given
NoState == <<>>

\* setCellState whose toggle only ever turns a cell on
setCellStateToggleSetsAlive(g, row, col, newState) ==
    LET nRows == Len(g)
        expectedNumCols == expectedNumColsOf(g)
    IN  IF row < 0 \/ row >= nRows \/ col < 0 \/ col >= expectedNumCols
        THEN g
        ELSE LET interimGrid ==
                    [r \in 1..nRows |-> sanitizeRow(g[r], expectedNumCols)]
             IN  [r \in 1..nRows |->
                    IF r - 1 # row
                    THEN interimGrid[r]
                    ELSE [c \in 1..Len(interimGrid[r]) |->
                            IF c - 1 # col
                            THEN interimGrid[r][c]
                            ELSE IF newState # NoState
                                 THEN newState[1]
                                 ELSE 1]]

\* setCellState that toggles whatever newState says
setCellStateAlwaysToggles(g, row, col, newState) ==
    LET nRows == Len(g)
        expectedNumCols == expectedNumColsOf(g)
    IN  IF row < 0 \/ row >= nRows \/ col < 0 \/ col >= expectedNumCols
        THEN g
        ELSE LET interimGrid ==
                    [r \in 1..nRows |-> sanitizeRow(g[r], expectedNumCols)]
             IN  [r \in 1..nRows |->
                    IF r - 1 # row
                    THEN interimGrid[r]
                    ELSE [c \in 1..Len(interimGrid[r]) |->
                            IF c - 1 # col
                            THEN interimGrid[r][c]
                            ELSE (IF interimGrid[r][c] = 1 THEN 0 ELSE 1)]]

\* setCellState without the bounds check: no cell matches an index outside
\* the grid, and the sanitized copy is returned
setCellStateNoBoundsCheck(g, row, col, newState) ==
    LET nRows == Len(g)
        expectedNumCols == expectedNumColsOf(g)
        interimGrid == [r \in 1..nRows |-> sanitizeRow(g[r], expectedNumCols)]
    IN  [r \in 1..nRows |->
            IF r - 1 # row
            THEN interimGrid[r]
            ELSE [c \in 1..Len(interimGrid[r]) |->
                    IF c - 1 # col
                    THEN interimGrid[r][c]
                    ELSE IF newState # NoState
                         THEN newState[1]
                         ELSE (IF interimGrid[r][c] = 1 THEN 0 ELSE 1)]]

setCellState(g, row, col, newState) ==
    LET nRows == Len(g)
        expectedNumCols == expectedNumColsOf(g)
    IN  IF row < 0 \/ row >= nRows \/ col < 0 \/ col >= expectedNumCols
        THEN g
        ELSE LET interimGrid ==
                    [r \in 1..nRows |-> sanitizeRow(g[r], expectedNumCols)]
             IN  [r \in 1..nRows |->
                    IF r - 1 # row
                    THEN interimGrid[r]
                    ELSE [c \in 1..Len(interimGrid[r]) |->
                            IF c - 1 # col
                            THEN interimGrid[r][c]
                            ELSE IF newState # NoState
                                 THEN newState[1]
                                 ELSE (IF interimGrid[r][c] = 1 THEN 0 ELSE 1)]]

\* loadPattern that wraps a target past an edge around, as the neighbour
\* count does, instead of dropping it
loadPatternWraps(g, pattern, startRow, startCol) ==
    LET nRows == Len(g)
        expectedNumCols == expectedNumColsOf(g)
        sanitizedBaseGrid ==
            [r \in 1..nRows |-> sanitizeRow(g[r], expectedNumCols)]
        patternLiveCells ==
            IF nRows = 0 \/ expectedNumCols = 0
            THEN {}
            ELSE {<<(startRow + pattern.data[k][1]) % nRows,
                    (startCol + pattern.data[k][2]) % expectedNumCols>> :
                        k \in DOMAIN pattern.data}
    IN  [r \in 1..nRows |-> [c \in 1..expectedNumCols |->
            IF <<r - 1, c - 1>> \in patternLiveCells
            THEN 1
            ELSE sanitizedBaseGrid[r][c]]]

\* loadPattern that takes the expected row length from the number of rows
loadPatternSanitizesToRows(g, pattern, startRow, startCol) ==
    LET nRows == Len(g)
        expectedNumCols == nRows
        sanitizedBaseGrid ==
            [r \in 1..nRows |-> sanitizeRow(g[r], expectedNumCols)]
        targets == {<<startRow + pattern.data[k][1], startCol + pattern.data[k][2]>> :
                        k \in DOMAIN pattern.data}
        patternLiveCells ==
            {t \in targets : t[1] >= 0 /\ t[1] < nRows
                             /\ t[2] >= 0 /\ t[2] < expectedNumCols}
    IN  [r \in 1..nRows |-> [c \in 1..expectedNumCols |->
            IF <<r - 1, c - 1>> \in patternLiveCells
            THEN 1
            ELSE sanitizedBaseGrid[r][c]]]

loadPattern(g, pattern, startRow, startCol) ==
    LET nRows == Len(g)
        expectedNumCols == expectedNumColsOf(g)
        sanitizedBaseGrid ==
            [r \in 1..nRows |-> sanitizeRow(g[r], expectedNumCols)]
        targets == {<<startRow + pattern.data[k][1], startCol + pattern.data[k][2]>> :
                        k \in DOMAIN pattern.data}
        patternLiveCells ==
            {t \in targets : t[1] >= 0 /\ t[1] < nRows
                             /\ t[2] >= 0 /\ t[2] < expectedNumCols}
    IN  [r \in 1..nRows |-> [c \in 1..expectedNumCols |->
            IF <<r - 1, c - 1>> \in patternLiveCells
            THEN 1
            ELSE sanitizedBaseGrid[r][c]]]

---------------------------------------------------------------------------
(* patterns.ts *)

glider ==
    [name |-> "Glider",
     data |-> << <<0, 1>>, <<1, 2>>, <<2, 0>>, <<2, 1>>, <<2, 2>> >>,
     width |-> 3, height |-> 3]

lwss ==
    [name |-> "LWSS",
     data |-> << <<0, 1>>, <<0, 2>>, <<0, 3>>, <<0, 4>>,
                 <<1, 0>>, <<1, 4>>,
                 <<2, 4>>,
                 <<3, 0>>, <<3, 3>> >>,
     width |-> 5, height |-> 4]

pulsar ==
    [name |-> "Pulsar",
     data |-> << <<0, 2>>, <<0, 3>>, <<0, 4>>, <<0, 8>>, <<0, 9>>, <<0, 10>>,
                 <<2, 0>>, <<2, 5>>, <<2, 7>>, <<2, 12>>,
                 <<3, 0>>, <<3, 5>>, <<3, 7>>, <<3, 12>>,
                 <<4, 0>>, <<4, 5>>, <<4, 7>>, <<4, 12>>,
                 <<5, 2>>, <<5, 3>>, <<5, 4>>, <<5, 8>>, <<5, 9>>, <<5, 10>>,
                 <<0, 12 - 2>>, <<0, 12 - 3>>, <<0, 12 - 4>>,
                 <<12 - 0, 2>>, <<12 - 0, 3>>, <<12 - 0, 4>>,
                 <<12 - 0, 8>>, <<12 - 0, 9>>, <<12 - 0, 10>>,
                 <<12 - 2, 0>>, <<12 - 2, 5>>, <<12 - 2, 7>>, <<12 - 2, 12>>,
                 <<12 - 3, 0>>, <<12 - 3, 5>>, <<12 - 3, 7>>, <<12 - 3, 12>>,
                 <<12 - 4, 0>>, <<12 - 4, 5>>, <<12 - 4, 7>>, <<12 - 4, 12>>,
                 <<12 - 5, 2>>, <<12 - 5, 3>>, <<12 - 5, 4>>,
                 <<12 - 5, 8>>, <<12 - 5, 9>>, <<12 - 5, 10>> >>,
     width |-> 13, height |-> 13]

gosperGliderGun ==
    [name |-> "Gosper Glider Gun",
     data |-> << <<0, 24>>,
                 <<1, 22>>, <<1, 24>>,
                 <<2, 12>>, <<2, 13>>, <<2, 20>>, <<2, 21>>, <<2, 34>>, <<2, 35>>,
                 <<3, 11>>, <<3, 15>>, <<3, 20>>, <<3, 21>>, <<3, 34>>, <<3, 35>>,
                 <<4, 0>>, <<4, 1>>, <<4, 10>>, <<4, 16>>, <<4, 20>>, <<4, 21>>,
                 <<5, 0>>, <<5, 1>>, <<5, 10>>, <<5, 14>>, <<5, 16>>, <<5, 17>>,
                 <<5, 22>>, <<5, 24>>,
                 <<6, 10>>, <<6, 16>>, <<6, 24>>,
                 <<7, 11>>, <<7, 15>>,
                 <<8, 12>>, <<8, 13>> >>,
     width |-> 36, height |-> 9]

\* PRESET_PATTERNS, by key
PRESET_PATTERNS ==
    [k \in {"glider", "lwss", "pulsar", "gosperGliderGun"} |->
        CASE k = "glider" -> glider
          [] k = "lwss" -> lwss
          [] k = "pulsar" -> pulsar
          [] k = "gosperGliderGun" -> gosperGliderGun]

---------------------------------------------------------------------------
(* Helpers for stating the claims *)

\* the 0-based cells of a grid that are alive
LiveCells(g) ==
    {rc \in (0..(Len(g) - 1)) \X (0..(expectedNumColsOf(g) - 1)) :
        cellIs(g, rc[1], rc[2], 1)}

\* every rectangular grid of nRows x nCols
GridsOf(nRows, nCols) == [1..nRows -> [1..nCols -> {0, 1}]]

---------------------------------------------------------------------------
(* renderer.ts *)

\* the GameState's readonly dimensions
numRows == initialGridRows
numCols == initialGridCols

\* getCellCoordinatesFromClick without the final test of row and col
getCellCoordinatesFromClickNoRangeTest(x, y) ==
    IF x < 0 \/ x > canvasWidth \/ y < 0 \/ y > canvasHeight
    THEN Null
    ELSE <<(y * numRows) \div canvasHeight, (x * numCols) \div canvasWidth>>

\* getCellCoordinatesFromClick, x and y being the pointer's offset from the
\* canvas rectangle.  CELL_WIDTH is canvasWidth / numCols, so
\* floor(x / CELL_WIDTH) is floor(x * numCols / canvasWidth).
getCellCoordinatesFromClick(x, y) ==
    IF x < 0 \/ x > canvasWidth \/ y < 0 \/ y > canvasHeight
    THEN Null
    ELSE LET col == (x * numCols) \div canvasWidth
             row == (y * numRows) \div canvasHeight
         IN  IF row >= 0 /\ row < numRows /\ col >= 0 /\ col < numCols
             THEN <<row, col>>
             ELSE Null

---------------------------------------------------------------------------
(* main.ts: the methods of GameOfLife, on the record w of the GameState   *)
(* fields together with the browser's timers                              *)

\* window.clearInterval
clearInterval(active, handle) == {t \in active : t[1] # handle}

\* window.setInterval that returns a handle and arms no timer
setIntervalArmsNothing(active, handle, interval) == active

\* window.setInterval: a timer under a fresh handle
setInterval(active, handle, interval) == active \cup {<<handle, interval>>}

\* stopSimulation that leaves the session in the status stopped
stopSimulationStopped(w) ==
    IF w.status # "running"
    THEN w
    ELSE [w EXCEPT !.status = "stopped",
                   !.timers = IF w.timerId # Null
                              THEN clearInterval(w.timers, w.timerId[1])
                              ELSE w.timers,
                   !.timerId = Null]

\* stopSimulation that pauses and forgets the handle without cancelling the timer
stopSimulationNoCancel(w) ==
    IF w.status # "running"
    THEN w
    ELSE [w EXCEPT !.status = "paused", !.timerId = Null]

stopSimulation(w) ==
    IF w.status # "running"
    THEN w
    ELSE [w EXCEPT !.status = "paused",
                   !.timers = IF w.timerId # Null
                              THEN clearInterval(w.timers, w.timerId[1])
                              ELSE w.timers,
                   !.timerId = Null]

\* startSimulation without the early return on a running session
startSimulationNoGuard(w) ==
    [w EXCEPT !.status = "running",
              !.timers = setInterval(
                            IF w.timerId # Null
                            THEN clearInterval(w.timers, w.timerId[1])
                            ELSE w.timers,
                            w.nextTimerId, w.simulationInterval),
              !.timerId = <<w.nextTimerId>>,
              !.nextTimerId = w.nextTimerId + 1]

startSimulation(w) ==
    IF w.status = "running"
    THEN w
    ELSE [w EXCEPT !.status = "running",
                   !.timers = setInterval(
                                IF w.timerId # Null
                                THEN clearInterval(w.timers, w.timerId[1])
                                ELSE w.timers,
                                w.nextTimerId, w.simulationInterval),
                   !.timerId = <<w.nextTimerId>>,
                   !.nextTimerId = w.nextTimerId + 1]

\* stepGeneration that counts the generation twice
stepGenerationCountsTwice(w) ==
    [w EXCEPT !.grid = calculateNextGeneration(w.grid),
              !.generation = w.generation + 2]

\* stepGeneration that counts the generation but drops the new grid
stepGenerationKeepsGrid(w) ==
    [w EXCEPT !.generation = w.generation + 1]

stepGeneration(w) ==
    [w EXCEPT !.grid = calculateNextGeneration(w.grid),
              !.generation = w.generation + 1]

\* clearGrid that resets the counter and the status and keeps the grid
clearGridKeepsGrid(w) ==
    [stopSimulation(w) EXCEPT !.generation = 0,
                              !.status = "paused"]

\* clearGrid with the dimensions of createEmptyGrid swapped
clearGridTransposed(w) ==
    [stopSimulation(w) EXCEPT !.grid = createEmptyGrid(numCols, numRows),
                              !.generation = 0,
                              !.status = "paused"]

\* clearGrid without the stopSimulation call
clearGridNoStop(w) ==
    [w EXCEPT !.grid = createEmptyGrid(numRows, numCols),
              !.generation = 0,
              !.status = "paused"]

randomizeGrid(w, alive) ==
    [stopSimulation(w) EXCEPT !.grid = createRandomGrid(numRows, numCols, alive),
                              !.generation = 0,
                              !.status = "paused"]

clearGrid(w) ==
    [stopSimulation(w) EXCEPT !.grid = createEmptyGrid(numRows, numCols),
                              !.generation = 0,
                              !.status = "paused"]

handleCellToggle(w, row, col, explicitState) ==
    IF w.status = "paused"
    THEN [w EXCEPT !.grid = setCellState(w.grid, row, col, explicitState)]
    ELSE w

\* handleSpeedChange that stores the interval and leaves the running timer alone
handleSpeedChangeNoRestart(w, interval) ==
    [w EXCEPT !.simulationInterval = interval]

handleSpeedChange(w, interval) ==
    LET s == [w EXCEPT !.simulationInterval = interval]
    IN  IF s.status = "running"
        THEN startSimulation(stopSimulation(s))
        ELSE s

\* handleLoadPattern that stamps the pattern on the grid as it is
handleLoadPatternKeepsCells(w, pattern) ==
    LET startRow == (numRows - pattern.height) \div 2
        startCol == (numCols - pattern.width) \div 2
    IN  [stopSimulation(w) EXCEPT
            !.grid = loadPattern(w.grid, pattern, startRow, startCol),
            !.generation = 0,
            !.status = "paused"]

\* handleLoadPattern without the reset of the generation counter
handleLoadPatternKeepsGeneration(w, pattern) ==
    LET startRow == (numRows - pattern.height) \div 2
        startCol == (numCols - pattern.width) \div 2
    IN  [stopSimulation(w) EXCEPT
            !.grid = loadPattern(createEmptyGrid(numRows, numCols), pattern,
                                 startRow, startCol),
            !.status = "paused"]

handleLoadPattern(w, pattern) ==
    LET startRow == (numRows - pattern.height) \div 2
        startCol == (numCols - pattern.width) \div 2
    IN  [stopSimulation(w) EXCEPT
            !.grid = loadPattern(createEmptyGrid(numRows, numCols), pattern,
                                 startRow, startCol),
            !.generation = 0,
            !.status = "paused"]

---------------------------------------------------------------------------
(* The session: the handlers input.ts registers and the timer callback *)

\* the draws of createRandomGrid the model follows
RandomDraws ==
    SUBSET {<<k \div numCols, k % numCols>> : k \in 0..(MaxRandomCells - 1)}

\* the pointer offsets the model follows: left of the canvas, its top-left
\* pixel, its centre and its bottom-right corner
PointerPositions ==
    {<<0 - 1, 0>>, <<0, 0>>,
     <<canvasWidth \div 2, canvasHeight \div 2>>,
     <<canvasWidth, canvasHeight>>}

\* the speed slider's positions the model follows (its range is min..max)
SliderValues == {minSimulationIntervalMs, maxSimulationIntervalMs}

\* the options of the template selector (index.html)
SelectorValues == {"", "glider", "pulsar", "gosperGliderGun", "lwss"}

Current ==
    [grid |-> grid, generation |-> generation, status |-> status,
     simulationInterval |-> simulationInterval, timerId |-> timerId,
     drawMode |-> drawMode, timers |-> timers, nextTimerId |-> nextTimerId]

Becomes(w) ==
    /\ grid' = w.grid
    /\ generation' = w.generation
    /\ status' = w.status
    /\ simulationInterval' = w.simulationInterval
    /\ timerId' = w.timerId
    /\ drawMode' = w.drawMode
    /\ timers' = w.timers
    /\ nextTimerId' = w.nextTimerId

\* the handler called name ran with argument arg
Did(name, arg) ==
    /\ lastCmd' = name
    /\ lastArg' = arg
    /\ prevStatus' = status

\* createInitialGameState, and no timer yet
Init ==
    /\ \E alive \in RandomDraws : grid = createRandomGrid(numRows, numCols, alive)
    /\ generation = 0
    /\ status = "paused"
    /\ simulationInterval = defaultSimulationIntervalMs
    /\ timerId = Null
    /\ drawMode = 1
    /\ isMouseDown = FALSE
    /\ timers = {}
    /\ nextTimerId = 1
    /\ lastCmd = "init"
    /\ lastArg = <<>>
    /\ prevStatus = "paused"
    /\ firstTouched = <<>>
    /\ fnIn = <<>>
    /\ fnOut = <<>>
    /\ fnPc = "idle"
    /\ fnArg = <<>>

StartButtonClick ==
    /\ status = "running" \/ nextTimerId <= MaxTimerIds
    /\ Becomes(startSimulation(Current))
    /\ Did("start", <<>>)
    /\ UNCHANGED <<isMouseDown, firstTouched>>
    /\ UNCHANGED fnVars

StopButtonClick ==
    /\ Becomes(stopSimulation(Current))
    /\ Did("stop", <<>>)
    /\ UNCHANGED <<isMouseDown, firstTouched>>
    /\ UNCHANGED fnVars

\* the step button's handler without its status test
StepButtonClickUnguarded ==
    /\ generation < MaxGeneration
    /\ Becomes(stepGeneration(Current))
    /\ Did("step", <<>>)
    /\ UNCHANGED <<isMouseDown, firstTouched>>
    /\ UNCHANGED fnVars

StepButtonClick ==
    /\ status = "paused" => generation < MaxGeneration
    /\ IF status = "paused"
       THEN Becomes(stepGeneration(Current))
       ELSE Becomes(Current)
    /\ Did("step", <<>>)
    /\ UNCHANGED <<isMouseDown, firstTouched>>
    /\ UNCHANGED fnVars

ResetButtonClick ==
    /\ \E alive \in RandomDraws : Becomes(randomizeGrid(Current, alive))
    /\ Did("randomize", <<>>)
    /\ UNCHANGED <<isMouseDown, firstTouched>>
    /\ UNCHANGED fnVars

ClearButtonClick ==
    /\ Becomes(clearGrid(Current))
    /\ Did("clear", <<>>)
    /\ UNCHANGED <<isMouseDown, firstTouched>>
    /\ UNCHANGED fnVars

\* the slider's handler with the inversion done without adding the minimum
SpeedSliderInputNoOffset ==
    /\ status = "running" => nextTimerId <= MaxTimerIds
    /\ \E value \in SliderValues :
        LET interval == maxSimulationIntervalMs - value
        IN  /\ Becomes(handleSpeedChange(Current, interval))
            /\ Did("speed", <<"ms", interval>>)
    /\ UNCHANGED <<isMouseDown, firstTouched>>
    /\ UNCHANGED fnVars

SpeedSliderInput ==
    /\ status = "running" => nextTimerId <= MaxTimerIds
    /\ \E value \in SliderValues :
        LET interval == maxSimulationIntervalMs - value + minSimulationIntervalMs
        IN  /\ Becomes(handleSpeedChange(Current, interval))
            /\ Did("speed", <<"ms", interval>>)
    /\ UNCHANGED <<isMouseDown, firstTouched>>
    /\ UNCHANGED fnVars

TemplateSelectorChange ==
    /\ \E selectedValue \in SelectorValues :
        IF selectedValue # "" /\ selectedValue \in DOMAIN PRESET_PATTERNS
        THEN /\ Becomes(handleLoadPattern(Current, PRESET_PATTERNS[selectedValue]))
             /\ Did("load", <<selectedValue>>)
        ELSE /\ Becomes(Current)
             /\ Did("select", <<selectedValue>>)
    /\ UNCHANGED <<isMouseDown, firstTouched>>
    /\ UNCHANGED fnVars

\* the mousedown handler without its status test
CanvasMouseDownUnguarded ==
    /\ \E p \in PointerPositions :
        LET cellCoords == getCellCoordinatesFromClick(p[1], p[2])
        IN  IF cellCoords # Null
            THEN LET mode == IF cellIs(grid, cellCoords[1], cellCoords[2], 1)
                             THEN 0 ELSE 1
                 IN  Becomes(handleCellToggle([Current EXCEPT !.drawMode = mode],
                                cellCoords[1], cellCoords[2], <<mode>>))
            ELSE Becomes(Current)
    /\ isMouseDown' = TRUE
    /\ firstTouched' = <<>>
    /\ Did("mousedown", <<>>)
    /\ UNCHANGED fnVars

CanvasMouseDown ==
    /\ IF status # "paused"
       THEN Becomes(Current) /\ UNCHANGED <<isMouseDown, firstTouched>>
       ELSE /\ isMouseDown' = TRUE
            /\ \E p \in PointerPositions :
                LET cellCoords == getCellCoordinatesFromClick(p[1], p[2])
                IN  IF cellCoords # Null
                    THEN LET mode == IF cellIs(grid, cellCoords[1], cellCoords[2], 1)
                                     THEN 0 ELSE 1
                         IN  /\ Becomes(handleCellToggle(
                                        [Current EXCEPT !.drawMode = mode],
                                        cellCoords[1], cellCoords[2], <<mode>>))
                             /\ firstTouched' = <<1 - mode>>
                    ELSE /\ Becomes(Current)
                         /\ firstTouched' = <<>>
    /\ Did("mousedown", <<>>)
    /\ UNCHANGED fnVars

CanvasMouseMove ==
    /\ IF ~isMouseDown \/ status # "paused"
       THEN Becomes(Current) /\ UNCHANGED firstTouched
       ELSE \E p \in PointerPositions :
                LET cellCoords == getCellCoordinatesFromClick(p[1], p[2])
                IN  /\ IF /\ cellCoords # Null
                          /\ ~cellIs(grid, cellCoords[1], cellCoords[2], drawMode)
                       THEN Becomes(handleCellToggle(Current, cellCoords[1],
                                                     cellCoords[2], <<drawMode>>))
                       ELSE Becomes(Current)
                    /\ firstTouched' =
                            IF cellCoords # Null /\ firstTouched = <<>>
                            THEN <<IF cellIs(grid, cellCoords[1], cellCoords[2], 1)
                                   THEN 1 ELSE 0>>
                            ELSE firstTouched
    /\ Did("mousemove", <<>>)
    /\ UNCHANGED isMouseDown
    /\ UNCHANGED fnVars

CanvasMouseUp ==
    /\ isMouseDown' = FALSE
    /\ firstTouched' = <<>>
    /\ Did("mouseup", <<>>)
    /\ Becomes(Current)
    /\ UNCHANGED fnVars

CanvasMouseLeave ==
    /\ isMouseDown' = FALSE
    /\ firstTouched' = <<>>
    /\ Did("mouseleave", <<>>)
    /\ Becomes(Current)
    /\ UNCHANGED fnVars

\* the callback of an active interval timer
TimerTick ==
    /\ generation < MaxGeneration
    /\ \E t \in timers : Becomes(stepGeneration(Current))
    /\ Did("tick", <<>>)
    /\ UNCHANGED <<isMouseDown, firstTouched>>
    /\ UNCHANGED fnVars

Next ==
    \/ StartButtonClick
    \/ StopButtonClick
    \/ StepButtonClick
    \/ ResetButtonClick
    \/ ClearButtonClick
    \/ SpeedSliderInput
    \/ TemplateSelectorChange
    \/ CanvasMouseDown
    \/ CanvasMouseMove
    \/ CanvasMouseUp
    \/ CanvasMouseLeave
    \/ TimerTick

Spec == Init /\ [][Next]_vars

---------------------------------------------------------------------------
(* The session with its timers scheduled fairly.  window.setInterval calls *)
(* the callback of a timer that stays armed; a timer that is cancelled     *)
(* owes no call.  Here the handle of a cancelled timer is handed out       *)
(* again, so that start and set-speed can be issued without end.           *)
(* A callback always changes generation, which is the subscript of the     *)
(* fairness condition.                                                     *)

\* the next handle wraps around to a handle that is no longer armed
FreshHandle(w) ==
    [w EXCEPT !.nextTimerId = IF w.nextTimerId > MaxTimerIds THEN 1 ELSE w.nextTimerId]

StartButtonClickAnew ==
    /\ Becomes(FreshHandle(startSimulation(Current)))
    /\ Did("start", <<>>)
    /\ UNCHANGED <<isMouseDown, firstTouched>>
    /\ UNCHANGED fnVars

SpeedSliderInputAnew ==
    /\ \E value \in SliderValues :
        LET interval == maxSimulationIntervalMs - value + minSimulationIntervalMs
        IN  /\ Becomes(FreshHandle(handleSpeedChange(Current, interval)))
            /\ Did("speed", <<"ms", interval>>)
    /\ UNCHANGED <<isMouseDown, firstTouched>>
    /\ UNCHANGED fnVars

\* the callback of the timer whose handle is h
TimerFires(h) ==
    /\ generation < MaxGeneration
    /\ \E t \in timers : t[1] = h
    /\ Did("tick", <<>>)
    /\ Becomes(stepGeneration(Current))
    /\ UNCHANGED <<isMouseDown, firstTouched>>
    /\ UNCHANGED fnVars

\* a step of TimerFires(h), told from the other steps of the session by what
\* it writes to the counter and to the history
TimerCallback(h) ==
    /\ generation < MaxGeneration
    /\ \E t \in timers : t[1] = h
    /\ lastCmd' = "tick"
    /\ generation' = generation + 1

FairNext ==
    \/ StartButtonClickAnew
    \/ StopButtonClick
    \/ StepButtonClick
    \/ ResetButtonClick
    \/ ClearButtonClick
    \/ SpeedSliderInputAnew
    \/ TemplateSelectorChange
    \/ CanvasMouseDown
    \/ CanvasMouseMove
    \/ CanvasMouseUp
    \/ CanvasMouseLeave
    \/ \E h \in 1..MaxTimerIds : TimerFires(h)

FairSpec ==
    /\ Init
    /\ [][FairNext]_vars
    /\ \A h \in 1..MaxTimerIds : WF_generation(TimerCallback(h))

---------------------------------------------------------------------------
(* The session is not running in the specifications of the engine functions *)
NoSession ==
    /\ grid = <<>>
    /\ generation = 0
    /\ status = "paused"
    /\ simulationInterval = defaultSimulationIntervalMs
    /\ timerId = Null
    /\ drawMode = 1
    /\ isMouseDown = FALSE
    /\ timers = {}
    /\ nextTimerId = 1
    /\ lastCmd = "none"
    /\ lastArg = <<>>
    /\ prevStatus = "paused"
    /\ firstTouched = <<>>

(* calculateNextGeneration called on every grid of 1..MaxRows x 1..MaxCols *)
GenInit ==
    /\ NoSession
    /\ \E nRows \in 1..MaxRows, nCols \in 1..MaxCols :
            fnIn \in GridsOf(nRows, nCols)
    /\ fnOut = <<>>
    /\ fnPc = "call"
    /\ fnArg = <<>>

CallNextGeneration ==
    /\ fnPc = "call"
    /\ fnOut' = calculateNextGeneration(fnIn)
    /\ fnPc' = "returned"
    /\ UNCHANGED <<fnIn, fnArg>>
    /\ UNCHANGED sessionVars

GenNext == CallNextGeneration

GenSpec == GenInit /\ [][GenNext]_vars

(* The glider stamped at (startRow, startCol) on an empty 20 x 20 grid and *)
(* followed for one period of 4 generations.  fnArg is <<startRow,         *)
(* startCol, generations applied>>.                                        *)
GliderInit ==
    /\ NoSession
    /\ fnIn = createEmptyGrid(20, 20)
    /\ fnOut = <<>>
    /\ fnPc = "stamp"
    /\ \E startRow \in -MaxStart..MaxStart, startCol \in -MaxStart..MaxStart :
            fnArg = <<startRow, startCol, 0>>

StampGlider ==
    /\ fnPc = "stamp"
    /\ fnOut' = loadPattern(fnIn, glider, fnArg[1], fnArg[2])
    /\ fnPc' = "advance"
    /\ UNCHANGED <<fnIn, fnArg>>
    /\ UNCHANGED sessionVars

AdvanceGlider ==
    /\ fnPc = "advance"
    /\ fnArg[3] < 4
    /\ fnOut' = calculateNextGeneration(fnOut)
    /\ fnArg' = <<fnArg[1], fnArg[2], fnArg[3] + 1>>
    /\ UNCHANGED <<fnIn, fnPc>>
    /\ UNCHANGED sessionVars

GliderNext == StampGlider \/ AdvanceGlider

GliderSpec == GliderInit /\ [][GliderNext]_vars

(* setCellState, loadPattern and calculateNextGeneration called on every   *)
(* grid of 0..MaxEditRows rows of 0..MaxEditCols cells each, ragged grids  *)
(* and grids without rows or columns included.  fnArg is the call:         *)
(*   <<"setCellState", row, col, newState>>                                *)
(*   <<"loadPattern", pattern key, startRow, startCol, calls made>>        *)
(*   <<"calculateNextGeneration">>                                         *)
RowsUpTo(n) == UNION {[1..k -> {0, 1}] : k \in 0..n}

EngineGrids == UNION {[1..k -> RowsUpTo(MaxEditCols)] : k \in 0..MaxEditRows}

\* the patterns stamped: no offset, one, two, one offset listed twice, the glider
EnginePatterns ==
    [k \in {"empty", "dot", "pair", "twice", "glider"} |->
        CASE k = "empty" -> [name |-> "Empty", data |-> <<>>, width |-> 0, height |-> 0]
          [] k = "dot" -> [name |-> "Dot", data |-> << <<0, 0>> >>,
                           width |-> 1, height |-> 1]
          [] k = "pair" -> [name |-> "Pair", data |-> << <<0, 1>>, <<1, 0>> >>,
                            width |-> 2, height |-> 2]
          [] k = "twice" -> [name |-> "Twice", data |-> << <<1, 1>>, <<1, 1>> >>,
                             width |-> 2, height |-> 2]
          [] k = "glider" -> glider]

EngineInit ==
    /\ NoSession
    /\ fnIn \in EngineGrids
    /\ fnOut = <<>>
    /\ fnPc = "call"
    /\ \/ \E row \in -1..MaxEditRows, col \in -1..MaxEditCols,
             newState \in {NoState, <<0>>, <<1>>} :
                fnArg = <<"setCellState", row, col, newState>>
       \/ \E key \in DOMAIN EnginePatterns,
             startRow \in -1..MaxEditRows, startCol \in -1..MaxEditCols :
                fnArg = <<"loadPattern", key, startRow, startCol, 0>>
       \/ fnArg = <<"calculateNextGeneration">>

CallSetCellState ==
    /\ fnPc = "call"
    /\ fnArg[1] = "setCellState"
    /\ fnOut' = setCellState(fnIn, fnArg[2], fnArg[3], fnArg[4])
    /\ fnPc' = "returned"
    /\ UNCHANGED <<fnIn, fnArg>>
    /\ UNCHANGED sessionVars

\* setCellState called again, with the same row, col and newState, on the
\* grid the first call returned; the first result is kept as fnArg[5]
CallSetCellStateAgain ==
    /\ fnPc = "returned"
    /\ fnArg[1] = "setCellState"
    /\ fnOut' = setCellState(fnOut, fnArg[2], fnArg[3], fnArg[4])
    /\ fnArg' = Append(fnArg, fnOut)
    /\ fnPc' = "returned twice"
    /\ UNCHANGED fnIn
    /\ UNCHANGED sessionVars

CallLoadPattern ==
    /\ fnPc = "call"
    /\ fnArg[1] = "loadPattern"
    /\ fnOut' = loadPattern(fnIn, EnginePatterns[fnArg[2]], fnArg[3], fnArg[4])
    /\ fnPc' = "returned"
    /\ fnArg' = [fnArg EXCEPT ![5] = 1]
    /\ UNCHANGED fnIn
    /\ UNCHANGED sessionVars

\* loadPattern called once more, on the grid the first call returned
CallLoadPatternAgain ==
    /\ fnPc = "returned"
    /\ fnArg[1] = "loadPattern"
    /\ fnArg[5] = 1
    /\ fnIn' = fnOut
    /\ fnOut' = loadPattern(fnOut, EnginePatterns[fnArg[2]], fnArg[3], fnArg[4])
    /\ fnArg' = [fnArg EXCEPT ![5] = 2]
    /\ UNCHANGED fnPc
    /\ UNCHANGED sessionVars

CallNextGenerationOnAnyGrid ==
    /\ fnArg[1] = "calculateNextGeneration"
    /\ CallNextGeneration

EngineNext ==
    \/ CallSetCellState
    \/ CallSetCellStateAgain
    \/ CallLoadPattern
    \/ CallLoadPatternAgain
    \/ CallNextGenerationOnAnyGrid

EngineSpec == EngineInit /\ [][EngineNext]_vars

(* getCellCoordinatesFromClick called on every integer pointer offset from *)
(* one pixel outside the canvas rectangle to one pixel past it             *)
PointerInit ==
    /\ NoSession
    /\ fnIn \in ((0 - 1)..(canvasWidth + 1)) \X ((0 - 1)..(canvasHeight + 1))
    /\ fnOut = <<>>
    /\ fnPc = "call"
    /\ fnArg = <<"getCellCoordinatesFromClick">>

CallGetCellCoordinates ==
    /\ fnPc = "call"
    /\ fnArg[1] = "getCellCoordinatesFromClick"
    /\ fnOut' = getCellCoordinatesFromClick(fnIn[1], fnIn[2])
    /\ fnPc' = "returned"
    /\ UNCHANGED <<fnIn, fnArg>>
    /\ UNCHANGED sessionVars

PointerNext == CallGetCellCoordinates

PointerSpec == PointerInit /\ [][PointerNext]_vars

---------------------------------------------------------------------------
(* Claims about the engine functions *)

\* the number of the 8 offsets whose wrapped position is alive in g
WrappedCount(g, r, c) ==
    LET R == Len(g)
        C == Len(g[1])
    IN  Cardinality({d \in (-1..1) \X (-1..1) :
            /\ d # <<0, 0>>
            /\ g[((r + d[1]) % R) + 1][((c + d[2]) % C) + 1] = 1})

\* C1: for every R x C grid (R, C >= 1) the grid calculateNextGeneration
\* returns has the same shape and cell (r, c) is alive exactly when it was
\* alive with 2 or 3 live wrapped neighbours or dead with exactly 3, the
\* neighbours being the 8 offsets taken modulo R and C.
C1_RuleWithWrap ==
    fnPc = "returned" =>
        LET R == Len(fnIn)
            C == Len(fnIn[1])
        IN  /\ Len(fnOut) = R
            /\ \A r \in 0..(R - 1) :
                /\ Len(fnOut[r + 1]) = C
                /\ \A c \in 0..(C - 1) :
                    LET n == WrappedCount(fnIn, r, c)
                        was == fnIn[r + 1][c + 1]
                    IN  /\ fnOut[r + 1][c + 1] \in {0, 1}
                        /\ fnOut[r + 1][c + 1] = 1 <=>
                            \/ (was = 1 /\ n \in {2, 3})
                            \/ (was = 0 /\ n = 3)

\* C1 witness: on a 3 x 3 grid the dead cell (0,0) is born from three live
\* neighbours, one of them the diagonally wrapped cell (R-1, C-1)
C1_Witness ==
    /\ fnPc = "returned"
    /\ Len(fnIn) = 3
    /\ Len(fnIn[1]) = 3
    /\ LiveCells(fnIn) = {<<2, 2>>, <<0, 1>>, <<1, 0>>}
    /\ fnOut[1][1] = 1

\* the cells the glider preset lists
GliderCells == {<<glider.data[k][1], glider.data[k][2]>> : k \in DOMAIN glider.data}

\* C2: the glider stamped at (0,0) on an empty 20 x 20 grid has, after 4
\* generations, exactly 5 live cells: its original cells moved by (+1, +1).
C2_GliderPeriod ==
    (fnPc = "advance" /\ fnArg[1] = 0 /\ fnArg[2] = 0) =>
        /\ fnArg[3] = 0 => LiveCells(fnOut) = GliderCells
        /\ fnArg[3] = 4 =>
            /\ Cardinality(LiveCells(fnOut)) = 5
            /\ LiveCells(fnOut) = {<<p[1] + 1, p[2] + 1>> : p \in GliderCells}

\* C2 witness: four generations after the stamp at (0,0)
C2_Witness ==
    /\ fnPc = "advance"
    /\ fnArg = <<0, 0, 4>>
    /\ Len(fnOut) = 20
    /\ <<3, 3>> \in LiveCells(fnOut)

\* C3 as claimed: on every R x C grid with exactly one live cell, that cell
\* is dead in the next generation.
C3_LoneCellDiesAnySize ==
    (fnPc = "returned" /\ Cardinality(LiveCells(fnIn)) = 1) =>
        \A rc \in LiveCells(fnIn) : fnOut[rc[1] + 1][rc[2] + 1] = 0

\* C3 amended: the lone live cell dies on every grid with R >= 2 and C >= 2,
\* and on the 1 x 1 grid; on a 1 x C or R x 1 grid with more than one cell
\* the wrap makes the cell its own neighbour twice and it survives.
C3_LoneCellDies ==
    (fnPc = "returned" /\ Cardinality(LiveCells(fnIn)) = 1) =>
        LET R == Len(fnIn)
            C == Len(fnIn[1])
        IN  \A rc \in LiveCells(fnIn) :
                IF (R >= 2 /\ C >= 2) \/ (R = 1 /\ C = 1)
                THEN fnOut[rc[1] + 1][rc[2] + 1] = 0
                ELSE fnOut[rc[1] + 1][rc[2] + 1] = 1

\* C3 witness: a lone live cell in the middle of a 3 x 3 grid has died
C3_Witness ==
    /\ fnPc = "returned"
    /\ Len(fnIn) = 3
    /\ Len(fnIn[1]) = 3
    /\ LiveCells(fnIn) = {<<1, 1>>}
    /\ LiveCells(fnOut) = {}

---------------------------------------------------------------------------
(* Claims about the session *)

\* C4: a step issued while the status is running changes neither the
\* generation nor the grid (nor the status or the timers): start(); step()
\* leaves generation where it was.
C4_StepIgnoredWhileRunning ==
    [][(lastCmd' = "step" /\ status = "running") =>
            /\ generation' = generation
            /\ grid' = grid
            /\ status' = "running"
            /\ timers' = timers]_vars

\* C4 witness: the step handler has run on a running session
C4_Witness ==
    /\ lastCmd = "step"
    /\ prevStatus = "running"
    /\ status = "running"
    /\ timers # {}

\* C5: a step issued while paused adds exactly 1 to generation, replaces the
\* grid by its next generation and leaves the session paused with no timer.
C5_StepWhilePaused ==
    [][(lastCmd' = "step" /\ status = "paused") =>
            /\ generation' = generation + 1
            /\ grid' = calculateNextGeneration(grid)
            /\ status' = "paused"
            /\ timers' = {}
            /\ timerId' = Null]_vars

\* C5 witness: a step taken on a paused session that had been started and
\* stopped before, with a grid that the step changed
C5_Witness ==
    /\ lastCmd = "step"
    /\ prevStatus = "paused"
    /\ nextTimerId > 1
    /\ generation = 1
    /\ grid # calculateNextGeneration(grid)

\* C6: at most one interval timer is active, and one is active exactly when
\* the status is running.
C6_OneTimerIffRunning ==
    /\ Cardinality(timers) <= 1
    /\ timers # {} <=> status = "running"
    /\ status = "running" => timerId # Null /\ timers = {<<timerId[1], simulationInterval>>}
    /\ status = "paused" => timerId = Null

\* C6 witness: a running session after a set-speed restarted its timer
C6_Witness ==
    /\ lastCmd = "speed"
    /\ prevStatus = "running"
    /\ status = "running"
    /\ Cardinality(timers) = 1
    /\ nextTimerId > 2

\* the commands that may change the grid or the generation of a paused session
PausedWriters == {"step", "mousedown", "mousemove", "randomize", "clear", "load"}

\* C7: while the session is paused (from a stop to the next start) no timer
\* tick runs, and generation and grid change only through step, set-cell,
\* randomize, clear or load-pattern.
C7_NoTickAfterStop ==
    [][status = "paused" =>
            /\ lastCmd' # "tick"
            /\ (generation' # generation \/ grid' # grid) =>
                    lastCmd' \in PausedWriters]_vars

\* C7 witness: a stop has returned on a session that was running and had ticked
C7_Witness ==
    /\ lastCmd = "stop"
    /\ prevStatus = "running"
    /\ status = "paused"
    /\ generation > 0

\* the grid handleLoadPattern builds for the pattern under key
CentredPattern(key) ==
    loadPattern(createEmptyGrid(numRows, numCols), PRESET_PATTERNS[key],
                (numRows - PRESET_PATTERNS[key].height) \div 2,
                (numCols - PRESET_PATTERNS[key].width) \div 2)

\* C8: randomize, clear and load-pattern, in any status, end with status
\* paused, generation 0, no timer active and the grid replaced (by a random
\* grid, the empty grid, the centred pattern on an empty grid).
C8_ResetCommands ==
    [][lastCmd' \in {"randomize", "clear", "load"} =>
            /\ status' = "paused"
            /\ generation' = 0
            /\ timers' = {}
            /\ timerId' = Null
            /\ lastCmd' = "clear" => grid' = createEmptyGrid(numRows, numCols)
            /\ lastCmd' = "randomize" =>
                    \E alive \in RandomDraws :
                        grid' = createRandomGrid(numRows, numCols, alive)
            /\ lastCmd' = "load" => grid' = CentredPattern(lastArg'[1])]_vars

\* C8 witness: clear has run on a running session that had advanced
C8_Witness ==
    /\ lastCmd = "clear"
    /\ prevStatus = "running"
    /\ status = "paused"
    /\ generation = 0
    /\ timers = {}

\* C9: a set-speed on a running session leaves it running with exactly one
\* timer, which uses the new interval, and generation and grid as they were;
\* a set-speed on a paused session changes only the stored interval.
C9_SetSpeed ==
    [][lastCmd' = "speed" =>
            /\ simulationInterval' = lastArg'[2]
            /\ generation' = generation
            /\ grid' = grid
            /\ status' = status
            /\ status = "running" =>
                    /\ timerId' # Null
                    /\ timers' = {<<timerId'[1], lastArg'[2]>>}
            /\ status = "paused" =>
                    UNCHANGED <<timerId, timers, nextTimerId, drawMode, isMouseDown>>]_vars

\* C9 witness: a running session whose interval a set-speed has changed
C9_Witness ==
    /\ lastCmd = "speed"
    /\ prevStatus = "running"
    /\ status = "running"
    /\ simulationInterval = minSimulationIntervalMs
    /\ timers = {<<timerId[1], minSimulationIntervalMs>>}
    /\ generation > 0

\* C10: a point-edit is accepted only while paused: a mousedown or mousemove
\* on a running session changes nothing of the session (the grid in
\* particular), a point-edit changes the grid only in a session that is and
\* stays paused, and a timer tick runs only in a session that is and stays
\* running.
C10_EditOnlyWhilePaused ==
    [][/\ (lastCmd' \in {"mousedown", "mousemove"} /\ status = "running") =>
            UNCHANGED <<grid, generation, status, drawMode, isMouseDown,
                        timers, timerId>>
       /\ (lastCmd' \in {"mousedown", "mousemove"} /\ grid' # grid) =>
            (status = "paused" /\ status' = "paused")
       /\ lastCmd' = "tick" =>
            (status = "running" /\ status' = "running")]_vars

\* C10 witness: a mousedown has been handled on a running session whose grid
\* has live cells
C10_Witness ==
    /\ lastCmd = "mousedown"
    /\ prevStatus = "running"
    /\ status = "running"
    /\ LiveCells(grid) # {}

\* C11: a start on a running session and a stop on a paused session are
\* no-ops: status, timer, grid, generation and interval stay as they were.
C11_RedundantStartStop ==
    [][((lastCmd' = "start" /\ status = "running")
        \/ (lastCmd' = "stop" /\ status = "paused")) =>
            UNCHANGED <<grid, generation, status, simulationInterval, timerId,
                        timers, nextTimerId, drawMode, isMouseDown>>]_vars

\* C11 witness: start has been handled on a session that was already running
\* and had advanced
C11_Witness ==
    /\ lastCmd = "start"
    /\ prevStatus = "running"
    /\ status = "running"
    /\ generation > 0
    /\ Cardinality(timers) = 1

\* the commands that reset the generation counter
ResetCommands == {"randomize", "clear", "load"}

\* C12: generation is never negative; a timer tick and a step accepted on a
\* paused session add exactly 1 to it and apply calculateNextGeneration once;
\* randomize, clear and load-pattern make it 0; every other handler, a step
\* on a running session included, leaves it as it was.
C12_GenerationCounter ==
    [][/\ generation >= 0
       /\ generation' >= 0
       /\ (lastCmd' = "tick" \/ (lastCmd' = "step" /\ status = "paused")) =>
            /\ generation' = generation + 1
            /\ grid' = calculateNextGeneration(grid)
       /\ lastCmd' \in ResetCommands => generation' = 0
       /\ ~(lastCmd' = "tick" \/ (lastCmd' = "step" /\ status = "paused")
            \/ lastCmd' \in ResetCommands) =>
            generation' = generation]_vars

\* C12 witness: a tick has taken the counter from 1 to 2
C12_Witness ==
    /\ lastCmd = "tick"
    /\ generation = 2
    /\ status = "running"

\* C13: the session's grid always has numRows rows of numCols cells, each 0
\* or 1.
C13_GridShape ==
    /\ Len(grid) = numRows
    /\ \A r \in 1..numRows :
        /\ Len(grid[r]) = numCols
        /\ \A c \in 1..numCols : grid[r][c] \in {0, 1}

\* C13 witness: a grid with live cells that a tick produced after a pattern
\* was loaded and the session started
C13_Witness ==
    /\ lastCmd = "tick"
    /\ generation > 0
    /\ LiveCells(grid) # {}
    /\ Len(grid) = numRows

---------------------------------------------------------------------------
(* Claims about setCellState, loadPattern and the empty grid *)

\* every row is as long as row 0 (a grid without rows included)
SameRowLengths(g) == \A r \in DOMAIN g : Len(g[r]) = Len(g[1])

\* a rectangular grid of at least one row and one column
IsRectangular(g) == Len(g) >= 1 /\ Len(g[1]) >= 1 /\ SameRowLengths(g)

\* a setCellState call has returned / a loadPattern call has returned
SetCellReturned == fnPc = "returned" /\ fnArg[1] = "setCellState"
LoadPatternReturned == fnPc = "returned" /\ fnArg[1] = "loadPattern"

\* the row and column of a setCellState call lie outside the grid, the
\* number of columns being the length of row 0
SetCellOutOfBounds ==
    \/ fnArg[2] < 0
    \/ fnArg[2] >= Len(fnIn)
    \/ fnArg[3] < 0
    \/ (Len(fnIn) > 0 /\ fnArg[3] >= Len(fnIn[1]))

\* the offsets of the pattern of a loadPattern call
CallOffsets ==
    LET data == EnginePatterns[fnArg[2]].data
    IN  {<<data[k][1], data[k][2]>> : k \in DOMAIN data}

\* the value the input grid holds at 1-based (r, c), a missing cell being dead
InputCell(r, c) == IF c <= Len(fnIn[r]) THEN fnIn[r][c] ELSE 0

\* C14: on a rectangular grid and an in-bounds (row, col), setCellState
\* returns a grid of the same dimensions whose target cell is newState when
\* given and the opposite of its old value otherwise, every other cell as in
\* the input.
C14_SetCellState ==
    (SetCellReturned /\ IsRectangular(fnIn) /\ ~SetCellOutOfBounds) =>
        /\ Len(fnOut) = Len(fnIn)
        /\ \A r \in 1..Len(fnIn) :
            /\ Len(fnOut[r]) = Len(fnIn[1])
            /\ \A c \in 1..Len(fnIn[1]) :
                fnOut[r][c] =
                    IF r - 1 = fnArg[2] /\ c - 1 = fnArg[3]
                    THEN (IF fnArg[4] # NoState THEN fnArg[4][1] ELSE 1 - fnIn[r][c])
                    ELSE fnIn[r][c]

\* C14 witness: cell (1,0) of a 2 x 2 grid, alive, has been set to the
\* explicit state 1 and stays alive beside the other cells
C14_Witness ==
    /\ SetCellReturned
    /\ fnIn = << <<0, 1>>, <<1, 0>> >>
    /\ fnArg = <<"setCellState", 1, 0, <<1>> >>
    /\ fnOut = fnIn

\* C15: setCellState with a row or column outside the grid returns a grid
\* equal to its input, with or without an explicit state.
C15_SetCellOutOfBounds ==
    (SetCellReturned /\ SetCellOutOfBounds) => fnOut = fnIn

\* C15 witness: setCellState(grid, numRows, 0) has returned on a grid whose
\* second row is shorter than the first
C15_Witness ==
    /\ SetCellReturned
    /\ fnIn = << <<1, 0>>, <<1>> >>
    /\ fnArg = <<"setCellState", 2, 0, NoState>>
    /\ fnOut = fnIn

\* C16: on a rectangular grid loadPattern returns a grid of the same
\* dimensions in which cell (r, c) is alive exactly when it was alive in the
\* input or (r - startRow, c - startCol) is an offset of the pattern; targets
\* outside the grid are dropped, not wrapped.
C16_LoadPattern ==
    (LoadPatternReturned /\ IsRectangular(fnIn)) =>
        /\ Len(fnOut) = Len(fnIn)
        /\ \A r \in 0..(Len(fnIn) - 1) :
            /\ Len(fnOut[r + 1]) = Len(fnIn[1])
            /\ \A c \in 0..(Len(fnIn[1]) - 1) :
                /\ fnOut[r + 1][c + 1] \in {0, 1}
                /\ fnOut[r + 1][c + 1] = 1 <=>
                    \/ fnIn[r + 1][c + 1] = 1
                    \/ <<r - fnArg[3], c - fnArg[4]>> \in CallOffsets

\* C16 witness: the glider stamped at (-1, -1) on a dead 2 x 2 grid leaves
\* the three cells whose targets fall inside it
C16_Witness ==
    /\ LoadPatternReturned
    /\ fnArg = <<"loadPattern", "glider", -1, -1, 1>>
    /\ fnIn = << <<0, 0>>, <<0, 0>> >>
    /\ LiveCells(fnOut) = {<<0, 1>>, <<1, 0>>, <<1, 1>>}

\* C17: on a grid whose rows are not all as long as row 0, an in-bounds
\* setCellState and every loadPattern return rows of row 0's length; a cell
\* that is not the edited cell or a stamped one keeps the input's value when
\* the input has it and is dead when it was added by padding; cells past
\* row 0's length are gone.
C17_RaggedRowsRepaired ==
    (/\ fnPc = "returned"
     /\ Len(fnIn) >= 1
     /\ ~SameRowLengths(fnIn)
     /\ \/ (fnArg[1] = "setCellState" /\ ~SetCellOutOfBounds)
        \/ fnArg[1] = "loadPattern") =>
        /\ Len(fnOut) = Len(fnIn)
        /\ \A r \in 1..Len(fnIn) :
            /\ Len(fnOut[r]) = Len(fnIn[1])
            /\ \A c \in 1..Len(fnIn[1]) :
                LET touched ==
                        IF fnArg[1] = "setCellState"
                        THEN r - 1 = fnArg[2] /\ c - 1 = fnArg[3]
                        ELSE <<r - 1 - fnArg[3], c - 1 - fnArg[4]>> \in CallOffsets
                IN  ~touched => fnOut[r][c] = InputCell(r, c)

\* C17 witness: a short second row has been padded with a dead cell by
\* loadPattern, a stamped cell apart
C17_Witness ==
    /\ LoadPatternReturned
    /\ fnArg = <<"loadPattern", "dot", 0, 0, 1>>
    /\ fnIn = << <<0, 1>>, <<1>> >>
    /\ fnOut = << <<1, 1>>, <<1, 0>> >>

\* C17 second case, a long row cut by an in-bounds setCellState: part of the
\* same formula; the state below is one TLC reaches
C17_TruncationReached ==
    /\ SetCellReturned
    /\ fnIn = << <<0>>, <<1, 1>> >>
    /\ fnArg = <<"setCellState", 0, 0, NoState>>
    /\ fnOut = << <<1>>, <<1>> >>

\* C18: loadPattern with an empty offset list returns a grid equal to its
\* input on every grid whose rows are equally long, and again when it is
\* applied to its own result.
C18_EmptyPatternIdentity ==
    (LoadPatternReturned /\ fnArg[2] = "empty" /\ SameRowLengths(fnIn)) =>
        fnOut = fnIn

\* C18 witness: the second call with the empty pattern has returned the 2 x 1
\* grid it was given, which the first call had returned
C18_Witness ==
    /\ LoadPatternReturned
    /\ fnArg[2] = "empty"
    /\ fnArg[5] = 2
    /\ fnIn = << <<1>>, <<0>> >>
    /\ fnOut = fnIn

\* C20: calculateNextGeneration on a grid without rows, or whose row 0 has
\* no columns, returns the empty grid.
C20_EmptyGrid ==
    (/\ fnPc = "returned"
     /\ fnArg[1] = "calculateNextGeneration"
     /\ (Len(fnIn) = 0 \/ Len(fnIn[1]) = 0)) =>
        fnOut = <<>>

\* C20 witness: row 0 has no columns, a later row has one, and the result is
\* the empty grid
C20_Witness ==
    /\ fnPc = "returned"
    /\ fnArg[1] = "calculateNextGeneration"
    /\ fnIn = << <<>>, <<1>> >>
    /\ fnOut = <<>>

---------------------------------------------------------------------------
(* Further claims about the session *)

\* C21: in every reachable session state the step interval is an integer
\* within minSimulationIntervalMs..maxSimulationIntervalMs.
C21_IntervalWithinBounds ==
    simulationInterval \in minSimulationIntervalMs..maxSimulationIntervalMs

\* C21 witness: the slider was moved to its maximum and the interval is the
\* configured minimum
C21_Witness ==
    /\ lastCmd = "speed"
    /\ lastArg = <<"ms", minSimulationIntervalMs>>
    /\ simulationInterval = minSimulationIntervalMs

\* C22: within a drag gesture performed while paused, drawMode is the
\* opposite of the state the first touched cell had before the gesture,
\* whether the mousedown itself or a later mousemove touched it.
C22_DrawModeFromFirstCell ==
    (isMouseDown /\ status = "paused" /\ firstTouched # <<>>) =>
        drawMode = 1 - firstTouched[1]

\* C24: the status is paused or running in every reachable state; stopped
\* is never reached.
C24_NeverStopped == status \in {"paused", "running"}

\* C24 witness: stop has run on a running session and left it paused
C24_Witness ==
    /\ lastCmd = "stop"
    /\ prevStatus = "running"
    /\ status = "paused"

\* no cell of g is alive
AllDead(g) == \A r \in DOMAIN g : \A c \in DOMAIN g[r] : g[r][c] = 0

\* C26: clear leaves every cell dead, and start, tick, step, stop and
\* set-speed leave an all-dead grid all-dead.
C26_ClearedGridStaysDead ==
    [][/\ lastCmd' = "clear" => AllDead(grid')
       /\ (AllDead(grid) /\ lastCmd' \in {"start", "tick", "step", "stop", "speed"})
            => AllDead(grid')]_vars

\* C26 witness: a timer has ticked on a running session whose grid is all
\* dead, and the grid is still all dead
C26_Witness ==
    /\ lastCmd = "tick"
    /\ status = "running"
    /\ generation = MaxGeneration
    /\ Len(grid) = numRows
    /\ AllDead(grid)

\* the cells of the session grid the pattern called key covers when it is
\* centred as handleLoadPattern centres it
CentredCells(key) ==
    LET pattern == PRESET_PATTERNS[key]
        startRow == (numRows - pattern.height) \div 2
        startCol == (numCols - pattern.width) \div 2
    IN  {rc \in (0..(numRows - 1)) \X (0..(numCols - 1)) :
            \E k \in DOMAIN pattern.data :
                /\ rc[1] = startRow + pattern.data[k][1]
                /\ rc[2] = startCol + pattern.data[k][2]}

\* C27: after load-pattern the live cells of the session grid are exactly
\* the pattern's offsets, shifted by the centring start, that fall inside the
\* grid, whatever the grid held before.
C27_LoadReplacesGrid ==
    [][lastCmd' = "load" => LiveCells(grid') = CentredCells(lastArg'[1])]_vars

\* C27 witness: the glider has been loaded and no other cell is alive
C27_Witness ==
    /\ lastCmd = "load"
    /\ lastArg = <<"glider">>
    /\ LiveCells(grid) = CentredCells("glider")
    /\ LiveCells(grid) # {}
    /\ <<0, 0>> \notin LiveCells(grid)

\* C25: after start has moved the session from paused to running, a timer
\* tick eventually fires (and generation exceeds the value it had at start)
\* unless the session is paused again, which stop, randomize, clear and
\* load-pattern do; set-speed commands in between are allowed.
C25_TickAfterStart ==
    (/\ lastCmd = "start" /\ prevStatus = "paused"
     /\ status = "running" /\ generation < MaxGeneration)
        ~> (lastCmd = "tick" \/ status = "paused")

\* C25 as amended: while the session runs, the timer in force eventually
\* ticks unless it is cancelled, which stop, randomize, clear, load-pattern
\* and set-speed do.
C25_TickUnlessTimerCancelled ==
    \A h \in 1..MaxTimerIds :
        (status = "running" /\ generation < MaxGeneration /\ timerId = <<h>>)
            ~> (lastCmd = "tick" \/ timerId # <<h>>)

\* C25 witness: the timer armed by a set-speed on a running session has
\* ticked
C25_Witness ==
    /\ lastCmd = "tick"
    /\ status = "running"
    /\ generation > 0
    /\ simulationInterval = maxSimulationIntervalMs
    /\ timerId # Null
    /\ timers = {<<timerId[1], maxSimulationIntervalMs>>}

---------------------------------------------------------------------------
(* Claims about the pointer mapping *)

\* C23: for every integer pointer offset (x, y), getCellCoordinatesFromClick
\* returns no cell or one cell (row, col) with 0 <= row < numRows and
\* 0 <= col < numCols whose rendered rectangle
\* [col*cellWidth, (col+1)*cellWidth) x [row*cellHeight, (row+1)*cellHeight)
\* contains (x, y), cellWidth being canvasWidth / numCols and cellHeight
\* canvasHeight / numRows (the inequalities are multiplied through by
\* numCols and numRows).
C23_PointerMapsToItsCell ==
    (fnPc = "returned" /\ fnArg[1] = "getCellCoordinatesFromClick"
     /\ fnOut # Null) =>
        LET x == fnIn[1]
            y == fnIn[2]
            row == fnOut[1]
            col == fnOut[2]
        IN  /\ row \in 0..(numRows - 1)
            /\ col \in 0..(numCols - 1)
            /\ col * canvasWidth <= x * numCols
            /\ x * numCols < (col + 1) * canvasWidth
            /\ row * canvasHeight <= y * numRows
            /\ y * numRows < (row + 1) * canvasHeight

\* C23 witness: the last pixel inside the canvas maps to the last cell
C23_Witness ==
    /\ fnPc = "returned"
    /\ fnArg[1] = "getCellCoordinatesFromClick"
    /\ fnIn = <<canvasWidth - 1, canvasHeight - 1>>
    /\ fnOut = <<numRows - 1, numCols - 1>>

\* C28: on a rectangular grid and an in-bounds (row, col), toggling the cell
\* twice gives back the original grid, and setting it to an explicit state
\* twice gives the grid that setting it once gives.
C28_ToggleTwiceSetTwice ==
    (/\ fnPc = "returned twice"
     /\ fnArg[1] = "setCellState"
     /\ IsRectangular(fnIn)
     /\ ~SetCellOutOfBounds) =>
        IF fnArg[4] = NoState
        THEN fnOut = fnIn
        ELSE fnOut = fnArg[5]

\* C28 witness: a dead cell toggled twice is dead again, having been alive
\* after the first toggle
C28_Witness ==
    /\ fnPc = "returned twice"
    /\ fnArg[1] = "setCellState"
    /\ fnArg[4] = NoState
    /\ fnIn = << <<0, 1>>, <<1, 0>> >>
    /\ fnArg[2] = 0 /\ fnArg[3] = 0
    /\ fnArg[5] = << <<1, 1>>, <<1, 0>> >>
    /\ fnOut = fnIn

===========================================================================
